---- MODULE Spec2Model ----
(***************************************************************************)
(* TRR (Trap-Redshift-Replication): the formula layer of                   *)
(* src/src/physics_engine.py driven the way examples/demo_identity_metric  *)
(* and src/demo.py drive it: a parameter set is built, compute_detuning    *)
(* derives the redshift z, and z is fed to fabric_lock_active,             *)
(* compute_lambda_fabric and identity_persistence.                         *)
(*                                                                         *)
(* Numbers.  The code computes in Python floats.  The model computes the   *)
(* same expressions, operator by operator, over exact rationals            *)
(* [n |-> numerator, d |-> denominator] kept in lowest terms with d > 0,   *)
(* so that "exactly 0.95", "> 1.0" and "< 0.014" are decided exactly.      *)
(* Wavelengths are held in nanometres and frequencies in GHz: every        *)
(* formula of the layer is a ratio of two lengths or of two frequencies,   *)
(* so the unit cancels.                                                    *)
(***************************************************************************)
EXTENDS Integers, Sequences, FiniteSets, TLC

\* --------------------------------------------------------------- rationals

Abs(x) == IF x < 0 THEN -x ELSE x

RECURSIVE GCD(_, _)
GCD(a, b) == IF b = 0 THEN a ELSE GCD(b, a % b)

\* The rational n/d (d # 0) in lowest terms with a positive denominator.
Rat(n, d) ==
    LET s == IF d < 0 THEN -1 ELSE 1
        g == GCD(Abs(n), Abs(d))
    IN  [n |-> (s * n) \div g, d |-> (s * d) \div g]

\* Floor of a rational, and the magnitudes beyond which a sum no longer
\* fits the integers of the model.
Floor(a) == a.n \div a.d
Huge(a) == Abs(a.n) \div a.d >= 1000000

\* Sums are exact, over the least common denominator.  A sum with a Huge
\* term is rounded to an integer, the way a float rounds a sum whose terms
\* differ by many orders of magnitude.
Add(a, b) ==
    IF Huge(a) \/ Huge(b)
    THEN Rat(Floor(a) + Floor(b), 1)
    ELSE LET g == GCD(a.d, b.d)
         IN  Rat(a.n * (b.d \div g) + b.n * (a.d \div g), (a.d \div g) * b.d)
Neg(a) == [n |-> -a.n, d |-> a.d]
Sub(a, b) == Add(a, Neg(b))
Mul(a, b) ==
    LET g1 == GCD(Abs(a.n), b.d)
        g2 == GCD(Abs(b.n), a.d)
    IN  Rat((a.n \div g1) * (b.n \div g2), (a.d \div g2) * (b.d \div g1))
Div(a, b) == Rat(a.n * b.d, a.d * b.n)

\* n1/d1 < n2/d2 for d1, d2 > 0, by integer parts and then the reciprocals
\* of the fractional parts (no product of numerators is formed).
RECURSIVE LtFrac(_, _, _, _)
LtFrac(n1, d1, n2, d2) ==
    LET q1 == n1 \div d1
        q2 == n2 \div d2
        r1 == n1 % d1
        r2 == n2 % d2
    IN  IF q1 # q2 THEN q1 < q2
        ELSE IF r2 = 0 THEN FALSE
        ELSE IF r1 = 0 THEN TRUE
        ELSE LtFrac(d2, r2, d1, r1)

Lt(a, b) == LtFrac(a.n, a.d, b.n, b.d)
Gt(a, b) == Lt(b, a)
Le(a, b) == ~Lt(b, a)
Ge(a, b) == ~Lt(a, b)

Zero == Rat(0, 1)
One == Rat(1, 1)

\* ------------------------------------------------------------- parameters

\* Defaults of fabric_lock_active / compute_lambda_fabric /
\* identity_persistence: lambda_emit = 780e-9 m, trap_size = 790e-9 m.
DefaultLambdaEmit == 780
DefaultTrapSize == 790

\* Largest cycle count of the modelled sweep.
MaxCycles == 20

\* TRRParams, the fields compute_detuning reads (frequencies in GHz).
TRRParams(nu_emit, fm, n_cycles) ==
    [nu_emit |-> nu_emit, fm |-> fm, n_cycles |-> n_cycles]

\* The parameter sets of the runs: a sweep of the cycle count at
\* nu_emit = 1000 GHz, fm = 1 GHz (z = k/1000), the demo's default set
\* (3.84e14 Hz, 5e9 Hz, 1000 cycles), and sets that put z exactly on a lock
\* threshold, below zero (negative modulation frequency) and above 1.
ParamSets ==
    { TRRParams(1000, 1, k) : k \in 0..MaxCycles }
    \cup { TRRParams(384000, 5, 1000),   \* z = 5/384
           TRRParams(78, 1, 1),          \* z = 1/78
           TRRParams(1000, -10, 1),      \* z = -0.01
           TRRParams(1000, -250, 1),     \* z = -0.25
           TRRParams(1000, -500, 2),     \* z = -1
           TRRParams(1000, -500, 4),     \* z = -2
           TRRParams(1000, 50, 1),       \* z = 0.05
           TRRParams(1000, 100, 2),      \* z = 0.2
           TRRParams(1000, 100, 10),     \* z = 1.0
           TRRParams(1000, 100, 14) }    \* z = 1.4

\* (lambda_emit, trap_size) pairs in nm: the defaults, the custom pair of
\* test_custom_trap_parameters, and two further positive pairs.
Geometries ==
    { <<DefaultLambdaEmit, DefaultTrapSize>>, <<800, 600>>,
      <<790, 790>>, <<500, 600>> }

\* ------------------------------------------------------------ formula layer

\* Variant: the shift added to the emission frequency instead of subtracted.
compute_detuning_blueshift(params) ==
    LET delta_nu == Mul(Rat(params.n_cycles, 1), Rat(params.fm, 1))
        nu_obs == Add(Rat(params.nu_emit, 1), delta_nu)
        z == Div(Sub(Rat(params.nu_emit, 1), nu_obs), Rat(params.nu_emit, 1))
    IN  [delta_nu |-> delta_nu, nu_obs |-> nu_obs, z |-> z]

compute_detuning(params) ==
    LET delta_nu == Mul(Rat(params.n_cycles, 1), Rat(params.fm, 1))
        nu_obs == Sub(Rat(params.nu_emit, 1), delta_nu)
        z == Div(Sub(Rat(params.nu_emit, 1), nu_obs), Rat(params.nu_emit, 1))
    IN  [delta_nu |-> delta_nu, nu_obs |-> nu_obs, z |-> z]

\* Variant: the lock test written with >= instead of >.
fabric_lock_active_ge(z, lambda_emit, trap_size) ==
    LET lambda_redshifted == Mul(lambda_emit, Add(One, z))
        Lambda_fabric == Div(lambda_redshifted, trap_size)
    IN  Ge(Lambda_fabric, One)

\* Variant: the ratio inverted (trap size over redshifted wavelength > 1,
\* which for a positive wavelength is trap_size > lambda_redshifted).
fabric_lock_active_inverted(z, lambda_emit, trap_size) ==
    LET lambda_redshifted == Mul(lambda_emit, Add(One, z))
    IN  Gt(trap_size, lambda_redshifted)

fabric_lock_active(z, lambda_emit, trap_size) ==
    LET lambda_redshifted == Mul(lambda_emit, Add(One, z))
        Lambda_fabric == Div(lambda_redshifted, trap_size)
    IN  Gt(Lambda_fabric, One)

compute_lambda_fabric(z, lambda_emit, trap_size) ==
    LET lambda_redshifted == Mul(lambda_emit, Add(One, z))
    IN  Div(lambda_redshifted, trap_size)

\* Variant: the locked branch missing, the decay formula used throughout.
identity_persistence_nolock(z, lambda_emit, trap_size) ==
    Sub(One, Mul(Rat(5, 100), compute_lambda_fabric(z, lambda_emit, trap_size)))

\* Variant: the unlocked branch with the sign of the slope flipped.
identity_persistence_rising(z, lambda_emit, trap_size) ==
    IF fabric_lock_active(z, lambda_emit, trap_size)
    THEN Rat(95, 100)
    ELSE Add(Rat(95, 100),
             Mul(Rat(5, 100), compute_lambda_fabric(z, lambda_emit, trap_size)))

\* Variant: the unlocked branch decaying with z instead of Lambda_fabric.
identity_persistence_z(z, lambda_emit, trap_size) ==
    IF fabric_lock_active(z, lambda_emit, trap_size)
    THEN Rat(95, 100)
    ELSE Sub(One, Mul(Rat(5, 100), z))

\* Variant: the unlocked branch with slope 0.5 instead of 0.05.
identity_persistence_slope(z, lambda_emit, trap_size) ==
    IF fabric_lock_active(z, lambda_emit, trap_size)
    THEN Rat(95, 100)
    ELSE Sub(One, Mul(Rat(5, 10), compute_lambda_fabric(z, lambda_emit, trap_size)))

identity_persistence(z, lambda_emit, trap_size) ==
    LET fabric_locked == fabric_lock_active(z, lambda_emit, trap_size)
    IN  IF fabric_locked
        THEN Rat(95, 100)
        ELSE LET Lambda_fabric == compute_lambda_fabric(z, lambda_emit, trap_size)
             IN  Sub(One, Mul(Rat(5, 100), Lambda_fabric))

\* ----------------------------------------- coupling, coherence and escape

\* np.clip(x, lo, hi) and the two-argument max.
Clip(x, lo, hi) == IF Lt(x, lo) THEN lo ELSE IF Gt(x, hi) THEN hi ELSE x
Max(a, b) == IF Lt(a, b) THEN b ELSE a

\* np.exp.  For x = p/q >= 0 the polynomial 1 + x + x^2/2 + x^3/6, for
\* x < 0 its reciprocal at -x: positive, strictly increasing, 1 at 0, and
\* within 3e-5 of e^x for |x| <= 0.15 (an underestimate of the growth
\* further out).
ExpPoly(x) ==
    Rat(6 * x.d * x.d * x.d + 6 * x.n * x.d * x.d + 3 * x.n * x.n * x.d
            + x.n * x.n * x.n,
        6 * x.d * x.d * x.d)
Exp(x) == IF x.n >= 0 THEN ExpPoly(x) ELSE Div(One, ExpPoly(Neg(x)))

\* np.sqrt of s = n/d >= 0 as floor(sqrt(n*d))/d: exact whenever s is the
\* square of a rational with denominator d.
ISqrt(m) == CHOOSE r \in 0..m : r * r <= m /\ (r + 1) * (r + 1) > m
Sqrt(s) == Rat(ISqrt(s.n * s.d), s.d)

\* TRRParams, the fields coupling_efficiency reads (powers in W, loss in
\* 1/m, length in m).
TrapParams(P_in, P_trap, alpha_loss, L_eff) ==
    [P_in |-> P_in, P_trap |-> P_trap, alpha_loss |-> alpha_loss, L_eff |-> L_eff]

\* TRRParams, the fields coherence_time reads (frequencies in GHz, the
\* baseline in ms).
NoiseParams(nu_emit, sigma_laser, sigma_mod, sigma_trap, coherence_baseline) ==
    [nu_emit |-> nu_emit, sigma_laser |-> sigma_laser, sigma_mod |-> sigma_mod,
     sigma_trap |-> sigma_trap, coherence_baseline |-> coherence_baseline]

\* Variant: the result returned without np.clip.
coupling_efficiency_noclip(params) ==
    IF Le(params.P_in, Zero)
    THEN Zero
    ELSE Mul(Div(params.P_trap, params.P_in),
             Exp(Mul(Neg(params.alpha_loss), params.L_eff)))

coupling_efficiency(params) ==
    IF Le(params.P_in, Zero)
    THEN Zero
    ELSE LET nc == Mul(Div(params.P_trap, params.P_in),
                       Exp(Mul(Neg(params.alpha_loss), params.L_eff)))
         IN  Clip(nc, Zero, One)

\* Variant: Tc returned without the floor at 0.
coherence_time_nofloor(params) ==
    LET sigma_total == Sqrt(Add(Add(Mul(params.sigma_laser, params.sigma_laser),
                                    Mul(params.sigma_mod, params.sigma_mod)),
                                Mul(params.sigma_trap, params.sigma_trap)))
        norm == Max(params.nu_emit, One)
    IN  Div(params.coherence_baseline, Add(One, Div(sigma_total, norm)))

coherence_time(params) ==
    LET sigma_total == Sqrt(Add(Add(Mul(params.sigma_laser, params.sigma_laser),
                                    Mul(params.sigma_mod, params.sigma_mod)),
                                Mul(params.sigma_trap, params.sigma_trap)))
        norm == Max(params.nu_emit, One)
        Tc == Div(params.coherence_baseline, Add(One, Div(sigma_total, norm)))
    IN  Max(Tc, Zero)

\* Default of escape_probability: Tc_threshold = 1e-6 s (times in ms).
DefaultTcThreshold == Rat(1, 1000)

\* Variant: the redshift term entering the score with the wrong sign.
escape_probability_minus(z, nc, Tc, Tc_threshold) ==
    LET score == Add(Add(Mul(Rat(-2, 1), z), Sub(One, nc)),
                     IF Lt(Tc, Tc_threshold) THEN One ELSE Zero)
    IN  Div(One, Add(One, Exp(Mul(Rat(-5, 1), Sub(score, One)))))

escape_probability(z, nc, Tc, Tc_threshold) ==
    LET score == Add(Add(Mul(Rat(2, 1), z), Sub(One, nc)),
                     IF Lt(Tc, Tc_threshold) THEN One ELSE Zero)
    IN  Div(One, Add(One, Exp(Mul(Rat(-5, 1), Sub(score, One)))))

\* --------------------------------------------------------- the noise probes

\* numpy's process-wide generator (np.random, which cirq.Simulator() falls
\* back to when no seed is given): a state in 0..RngStates-1 that every
\* draw advances, and the measurement outcome 0..3 read off a state.
RngStates == 8
Step(r) == (5 * r + 3) % RngStates
Outcome(r) == (4 * r) \div RngStates

\* The outcomes of n successive draws from state r, and the state after.
RECURSIVE Draws(_, _)
Draws(r, n) == IF n <= 0 THEN <<>> ELSE <<Outcome(r)>> \o Draws(Step(r), n - 1)
RECURSIVE After(_, _)
After(r, n) == IF n <= 0 THEN r ELSE After(Step(r), n - 1)

\* np.random.poisson(lam): 0 for lam = 0, otherwise a count read off the
\* generator state.
Poisson(lam, r) == IF Le(lam, Zero) THEN 0 ELSE r

\* format(outcome, '02b'): binary digits, left-padded with 0 to two.
Bit(b) == IF b = 0 THEN "0" ELSE "1"
RECURSIVE Bin(_)
Bin(m) == IF m < 2 THEN Bit(m) ELSE Bin(m \div 2) \o Bit(m % 2)
Format02b(outcome) == IF outcome < 2 THEN "0" \o Bin(outcome) ELSE Bin(outcome)

\* Variant: each outcome that occurred counted once.
Histogram_presence(samples) ==
    [o \in {samples[i] : i \in DOMAIN samples} |-> 1]

\* results.histogram(key='m'): the outcomes that occurred, each with the
\* number of repetitions that produced it.
Histogram(samples) ==
    [o \in {samples[i] : i \in DOMAIN samples} |->
        Cardinality({i \in DOMAIN samples : samples[i] = o})]

\* The histogram re-keyed by bit string.
FormattedCounts(counts) ==
    [b \in {Format02b(o) : o \in DOMAIN counts} |->
        counts[CHOOSE o \in DOMAIN counts : Format02b(o) = b]]

\* dict.get(key, 0)
Get(counts, key) == IF key \in DOMAIN counts THEN counts[key] ELSE 0

\* Times in ms: Tc_ref = 1e-3 s, and the floor 1e-12 s of the denominator.
Tc_ref == One
TcFloor == Rat(1, 1000000000)

dep_err(z, nc) ==
    Clip(Add(Add(Rat(1, 50), Mul(Rat(3, 10), z)), Mul(Rat(1, 5), Sub(One, nc))),
         Zero, Rat(9, 10))

\* Variant: the phase damping returned without np.clip.
phase_gamma_noclip(Tc, nc) ==
    Add(Add(Rat(1, 50), Mul(Rat(1, 2), Div(Tc_ref, Max(Tc, TcFloor)))),
        Mul(Rat(1, 10), Sub(One, nc)))

phase_gamma(Tc, nc) ==
    Clip(Add(Add(Rat(1, 50), Mul(Rat(1, 2), Div(Tc_ref, Max(Tc, TcFloor)))),
             Mul(Rat(1, 10), Sub(One, nc))),
         Zero, Rat(9, 10))

\* run_cirq_noise_probe from the samples the simulator returned (shots # 0).
\* The circuit run_cirq_noise_probe builds (lines 46-58), operation by
\* operation: the gate or channel and the qubits it acts on.  The channels
\* have the magnitudes phase_gamma and dep_err the call returns.
Op(name, on) == [op |-> name, on |-> on]
cirq_circuit ==
    << Op("H", <<0>>),
       Op("phase_damp", <<0>>),
       Op("depolarize", <<0>>),
       Op("CNOT", <<0, 1>>),
       Op("depolarize", <<0>>),
       Op("depolarize", <<1>>),
       Op("measure", <<0, 1>>) >>

run_cirq_noise_probe(Tc, z, nc, shots, samples) ==
    LET formatted_counts == FormattedCounts(Histogram(samples))
        p00 == Div(Rat(Get(formatted_counts, "00"), 1), Rat(shots, 1))
        p11 == Div(Rat(Get(formatted_counts, "11"), 1), Rat(shots, 1))
    IN  [counts |-> formatted_counts,
         fidelity_proxy |-> Add(p00, p11),
         dep_err |-> dep_err(z, nc),
         phase_err |-> phase_gamma(Tc, nc)]

\* run_qiskit_noise_probe from the samples the simulator returned
\* (shots # 0): the fidelity alone.
dep_p(z, nc) ==
    Clip(Add(Add(Rat(1, 50), Mul(Rat(7, 20), z)), Mul(Rat(1, 4), Sub(One, nc))),
         Zero, Rat(9, 10))

\* The circuit run_qiskit_noise_probe runs (lines 128-139): h, cx and the
\* measurement of both qubits, with the noise model's depolarizing error
\* after every h (one qubit) and every cx (both qubits), of magnitude dep_p.
qiskit_circuit ==
    << Op("H", <<0>>),
       Op("depolarize", <<0>>),
       Op("CNOT", <<0, 1>>),
       Op("depolarize", <<0, 1>>),
       Op("measure", <<0, 1>>) >>

run_qiskit_noise_probe(z, nc, shots, samples) ==
    LET counts == FormattedCounts(Histogram(samples))
    IN  Div(Rat(Get(counts, "00") + Get(counts, "11"), 1), Rat(shots, 1))

\* simulate_hawking_pairs with the generator in state r.
DefaultWallZ == Rat(7, 500)

\* Variants: the probability left unclipped, and the instability taken to
\* first order in z - wall_z.
simulate_hawking_pairs_noclip(z, nc, wall_z, r) ==
    LET base_prob == Rat(1, 100)
        instability == Exp(Mul(Rat(15, 1), Sub(z, wall_z)))
        pair_prob == Add(base_prob, Mul(instability, Sub(One, nc)))
    IN  [pair_prob |-> pair_prob,
         simulated_coincidences |-> Poisson(Mul(pair_prob, Rat(100, 1)), r)]
simulate_hawking_pairs_linear(z, nc, wall_z, r) ==
    LET base_prob == Rat(1, 100)
        instability == Add(One, Mul(Rat(15, 1), Sub(z, wall_z)))
        pair_prob == Clip(Add(base_prob, Mul(instability, Sub(One, nc))), Zero, One)
    IN  [pair_prob |-> pair_prob,
         simulated_coincidences |-> Poisson(Mul(pair_prob, Rat(100, 1)), r)]

simulate_hawking_pairs(z, nc, wall_z, r) ==
    LET base_prob == Rat(1, 100)
        instability == Exp(Mul(Rat(15, 1), Sub(z, wall_z)))
        pair_prob == Clip(Add(base_prob, Mul(instability, Sub(One, nc))), Zero, One)
    IN  [pair_prob |-> pair_prob,
         simulated_coincidences |-> Poisson(Mul(pair_prob, Rat(100, 1)), r)]

\* ------------------------------------- the legacy class-based interfaces

\* An optional argument of a call is given, or left out and then takes the
\* default of the signature.
Omitted == <<>>
Given(v) == <<v>>
Default(x, d) == IF x = Omitted THEN d ELSE x[1]

\* shots = 8192, the default of both run_cirq_noise_probe signatures,
\* scaled like the shot counts of the demo runs.
DefaultShots == 2

\* The static methods of PhysicsEngine and QuantumNoiseProbe: what each
\* hands to the function of the same name, its own defaults filled in.
PhysicsEngine_compute_detuning(params) == params
PhysicsEngine_coupling_efficiency(params) == params
PhysicsEngine_coherence_time(params) == params
PhysicsEngine_escape_probability(z, nc, Tc, Tc_threshold) ==
    [z |-> z, nc |-> nc, Tc |-> Tc,
     Tc_threshold |-> Default(Tc_threshold, DefaultTcThreshold)]
\* Variant: the two lengths handed over in the other order.
PhysicsEngine_fabric_lock_active_swapped(z, lambda_emit, trap_size) ==
    [z |-> z,
     lambda_emit |-> Default(trap_size, Rat(DefaultTrapSize, 1)),
     trap_size |-> Default(lambda_emit, Rat(DefaultLambdaEmit, 1))]
PhysicsEngine_fabric_lock_active(z, lambda_emit, trap_size) ==
    [z |-> z,
     lambda_emit |-> Default(lambda_emit, Rat(DefaultLambdaEmit, 1)),
     trap_size |-> Default(trap_size, Rat(DefaultTrapSize, 1))]
PhysicsEngine_compute_lambda_fabric(z, lambda_emit, trap_size) ==
    [z |-> z,
     lambda_emit |-> Default(lambda_emit, Rat(DefaultLambdaEmit, 1)),
     trap_size |-> Default(trap_size, Rat(DefaultTrapSize, 1))]
PhysicsEngine_identity_persistence(z, lambda_emit, trap_size) ==
    [z |-> z,
     lambda_emit |-> Default(lambda_emit, Rat(DefaultLambdaEmit, 1)),
     trap_size |-> Default(trap_size, Rat(DefaultTrapSize, 1))]
QuantumNoiseProbe_run_cirq_noise_probe(Tc, z, nc, shots) ==
    [Tc |-> Tc, z |-> z, nc |-> nc, shots |-> Default(shots, DefaultShots)]

\* ------------------------------------------------------------ logging_utils

\* A file is known by whether it exists and by its lines.  A line of a CSV
\* file is a header row (the field names) or a data row; data is the dict
\* handed to log_to_csv, known by its keys and by which call it came from.
NoFile == [exists |-> FALSE, rows |-> <<>>]
EmptyFile == [exists |-> TRUE, rows |-> <<>>]
Header(data) == [kind |-> "header", keys |-> data.keys]
Row(data) == [kind |-> "row", keys |-> data.keys, id |-> data.id]

\* The field names of the rows both demo scripts log, and another dict's.
RunKeys == <<"timestamp", "z", "Tc", "nc", "escape_prob", "fidelity_proxy",
             "dep_err", "phase_err">>
OtherKeys == <<"timestamp", "z">>

\* os.path.isfile(filename), and open(filename, 'a'): the file exists from
\* then on, with the lines it had.
isfile(f) == f.exists
open_append(f) == [f EXCEPT !.exists = TRUE]

\* What the DictWriter puts into the file object's buffer.
DictWriter_header_always(file_exists, data) == <<Header(data), Row(data)>>
DictWriter_header_last(file_exists, data) ==
    <<Row(data)>> \o (IF ~file_exists THEN <<Header(data)>> ELSE <<>>)
DictWriter(file_exists, data) ==
    (IF ~file_exists THEN <<Header(data)>> ELSE <<>>) \o <<Row(data)>>

\* Leaving the with block closes the file: the buffer is appended.
close(f, buffer) == [f EXCEPT !.rows = @ \o buffer]

\* log_to_csv run from its first line to its last with no other writer
\* of the file in between.
log_to_csv(f, data) == close(open_append(f), DictWriter(isfile(f), data))

\* A file an earlier run left behind.
OldFile == log_to_csv(NoFile, [keys |-> RunKeys, id |-> 0])

\* ------------------------------------------------------------------- state

VARIABLES
    params,       \* the TRRParams of the current run
    lambda_emit,  \* emission wavelength passed to the fabric functions (nm)
    trap_size,    \* trap size passed to the fabric functions (nm)
    called,       \* the functions already called for the current params
    det,          \* result of compute_detuning(params)
    locked,       \* result of fabric_lock_active(det.z, ...)
    Lambda,       \* result of compute_lambda_fabric(det.z, ...)
    I_MI,         \* result of identity_persistence(det.z, ...)
    row,          \* the last completed row (z, Lambda, locked, I_MI)
    call,         \* the last call of the call log: function, arguments, outcome
    prev,         \* the call before it
    np_random,    \* state of numpy's process-wide random generator
    pc,           \* where a demo run stands: idle, sweep, done or aborted
    run,          \* the demo run: script, Tc, nc, sweep end, cirq availability
    qp,           \* fidelity of the single-point probe of the run, or None
    k,            \* number of sweep points handled so far
    fps,          \* the sweep's list of fidelities
    failed,       \* the sweep points whose probe call raised
    cause,        \* the exception that ended the run, if any
    log_file,     \* whether demo()'s local name log_file is bound
    file,         \* the CSV log file: whether it exists, and its lines
    writers,      \* each caller of log_to_csv: position, locals, buffer
    history,      \* the log_to_csv calls so far: started, returned, overlapping
    sweep,        \* a sweep of simulate_hawking_pairs: its z values and nc
    probs         \* the pair probabilities the sweep collected so far

fabricVars == <<params, lambda_emit, trap_size, called, det, locked, Lambda, I_MI, row>>
logVars == <<call, prev>>
demoVars == <<pc, run, qp, k, fps, failed, cause, log_file>>
csvVars == <<file, writers, history>>
pairVars == <<sweep, probs>>
vars == <<fabricVars, logVars, np_random, demoVars, csvVars, pairVars>>

\* No call yet, and what stands for a result where there is none (a call
\* that raised, Python's None).
NoCall == [fn |-> "none"]
NoResult == [none |-> TRUE]
LogIdle == call = NoCall /\ prev = NoCall

\* No demo run started.
NoRun == [script |-> "none"]
DemoIdle ==
    /\ pc = "idle"
    /\ run = NoRun
    /\ qp = NoResult
    /\ k = 0
    /\ fps = <<>>
    /\ failed = {}
    /\ cause = "none"
    /\ log_file = "unbound"

\* The callers of log_to_csv, none of them in a call, and no sweep of
\* simulate_hawking_pairs.
Writers == {1, 2}
IdleWriter == [pc |-> "idle"]
NoHistory == [initial |-> NoFile, started |-> 0, returned |-> <<>>,
              raised |-> {}, overlapped |-> FALSE]
CsvIdle ==
    /\ file = NoFile
    /\ writers = [w \in Writers |-> IdleWriter]
    /\ history = NoHistory
NoSweep == [test |-> "none"]
PairIdle == sweep = NoSweep /\ probs = <<>>

NoDet == [delta_nu |-> Zero, nu_obs |-> Zero, z |-> Zero]
NoRow == [valid |-> FALSE, z |-> Zero, Lambda |-> Zero, locked |-> FALSE, I_MI |-> Zero]

RowComplete == {"detuning", "lock", "lambda", "identity"} \subseteq called

Init ==
    /\ params \in ParamSets
    /\ \E g \in Geometries : lambda_emit = Rat(g[1], 1) /\ trap_size = Rat(g[2], 1)
    /\ called = {}
    /\ det = NoDet
    /\ locked = FALSE
    /\ Lambda = Zero
    /\ I_MI = Zero
    /\ row = NoRow
    /\ LogIdle
    /\ np_random = 0
    /\ DemoIdle
    /\ CsvIdle
    /\ PairIdle

\* The next run: a fresh TRRParams.  A row whose three values were all
\* computed is kept as the previous row of the table.
NewParams(p) ==
    /\ params' = p
    /\ called' = {}
    /\ det' = NoDet
    /\ locked' = FALSE
    /\ Lambda' = Zero
    /\ I_MI' = Zero
    /\ row' = IF RowComplete
              THEN [valid |-> TRUE, z |-> det.z, Lambda |-> Lambda,
                    locked |-> locked, I_MI |-> I_MI]
              ELSE row
    /\ UNCHANGED <<lambda_emit, trap_size>>
    /\ UNCHANGED <<logVars, np_random, demoVars, csvVars, pairVars>>

ComputeDetuning ==
    /\ "detuning" \notin called
    /\ det' = compute_detuning(params)
    /\ called' = called \cup {"detuning"}
    /\ UNCHANGED <<params, lambda_emit, trap_size, locked, Lambda, I_MI, row>>
    /\ UNCHANGED <<logVars, np_random, demoVars, csvVars, pairVars>>

\* Variant: a lock that stays on once the previous row was locked.
FabricLockActive_sticky ==
    /\ "detuning" \in called
    /\ "lock" \notin called
    /\ locked' = (row.locked \/ fabric_lock_active(det.z, lambda_emit, trap_size))
    /\ called' = called \cup {"lock"}
    /\ UNCHANGED <<params, lambda_emit, trap_size, det, Lambda, I_MI, row>>
    /\ UNCHANGED <<logVars, np_random, demoVars, csvVars, pairVars>>

FabricLockActive ==
    /\ "detuning" \in called
    /\ "lock" \notin called
    /\ locked' = fabric_lock_active(det.z, lambda_emit, trap_size)
    /\ called' = called \cup {"lock"}
    /\ UNCHANGED <<params, lambda_emit, trap_size, det, Lambda, I_MI, row>>
    /\ UNCHANGED <<logVars, np_random, demoVars, csvVars, pairVars>>

ComputeLambdaFabric ==
    /\ "detuning" \in called
    /\ "lambda" \notin called
    /\ Lambda' = compute_lambda_fabric(det.z, lambda_emit, trap_size)
    /\ called' = called \cup {"lambda"}
    /\ UNCHANGED <<params, lambda_emit, trap_size, det, locked, I_MI, row>>
    /\ UNCHANGED <<logVars, np_random, demoVars, csvVars, pairVars>>

IdentityPersistence ==
    /\ "detuning" \in called
    /\ "identity" \notin called
    /\ I_MI' = identity_persistence(det.z, lambda_emit, trap_size)
    /\ called' = called \cup {"identity"}
    /\ UNCHANGED <<params, lambda_emit, trap_size, det, locked, Lambda, row>>
    /\ UNCHANGED <<logVars, np_random, demoVars, csvVars, pairVars>>

Next ==
    \/ \E p \in ParamSets : NewParams(p)
    \/ ComputeDetuning
    \/ FabricLockActive
    \/ ComputeLambdaFabric
    \/ IdentityPersistence

Spec == Init /\ [][Next]_vars

\* ------------------------------------------- the formula layer, call by call

\* The fabric sweep at rest while other parts of the program run.
FabricIdle ==
    /\ params = TRRParams(1000, 1, 0)
    /\ lambda_emit = Rat(DefaultLambdaEmit, 1)
    /\ trap_size = Rat(DefaultTrapSize, 1)
    /\ called = {}
    /\ det = NoDet
    /\ locked = FALSE
    /\ Lambda = Zero
    /\ I_MI = Zero
    /\ row = NoRow

\* Parameter sets for coupling_efficiency: input power zero, negative and
\* positive; trap power below and above the input power and negative; the
\* default loss (alpha_loss 2.0, L_eff 0.05) and no loss.
TrapSets ==
    { TrapParams(pin, ptrap, al[1], al[2]) :
        pin \in {Zero, Rat(-1, 100), Rat(1, 100)},
        ptrap \in {Rat(3, 500), Rat(1, 50), Rat(-3, 500)},
        al \in {<<Rat(2, 1), Rat(1, 20)>>, <<Zero, Rat(1, 20)>>} }

\* Parameter sets for coherence_time: emission frequency 0 and the default;
\* noise triples whose root-sum-square is rational (0, 5, 7, and 5 with a
\* negative magnitude); baseline positive, zero and negative.
NoiseSets ==
    { NoiseParams(nu, Rat(sg[1], 1), Rat(sg[2], 1), Rat(sg[3], 1), b) :
        nu \in {Zero, Rat(384000, 1)},
        sg \in {<<0, 0, 0>>, <<3, 4, 0>>, <<2, 3, 6>>, <<-3, 4, 0>>},
        b \in {One, Zero, Rat(-1, 1)} }

\* Arguments of escape_probability: z negative, zero, small and above 1;
\* nc across [0, 1]; Tc below and above the threshold.
EscapeZs == {Rat(-2, 1), Rat(-1, 4), Zero, Rat(1, 100), Rat(1, 5), Rat(7, 5)}
EscapeNcs == {Zero, Rat(1, 2), One}
EscapeTcs == {Rat(1, 2000), One}

\* Parameter sets for compute_detuning called on its own: the default set,
\* a sweep point, and two sets with a negative cycle count.
DetuningSets ==
    { TRRParams(384000, 5, 1000), TRRParams(1000, 1, 14),
      TRRParams(1000, 1, -5), TRRParams(1000, -10, -2) }

\* Every call is appended to the log; the call before it is kept.
CallComputeDetuning(p) ==
    /\ call' = [fn |-> "compute_detuning", args |-> p,
                ret |-> compute_detuning(p), raised |-> "none"]
    /\ prev' = call
    /\ UNCHANGED <<fabricVars, np_random, demoVars, csvVars, pairVars>>

CallCouplingEfficiency(p) ==
    /\ call' = [fn |-> "coupling_efficiency", args |-> p,
                ret |-> coupling_efficiency(p), raised |-> "none"]
    /\ prev' = call
    /\ UNCHANGED <<fabricVars, np_random, demoVars, csvVars, pairVars>>

CallCoherenceTime(p) ==
    /\ call' = [fn |-> "coherence_time", args |-> p,
                ret |-> coherence_time(p), raised |-> "none"]
    /\ prev' = call
    /\ UNCHANGED <<fabricVars, np_random, demoVars, csvVars, pairVars>>

CallEscapeProbability(z, nc, Tc) ==
    /\ call' = [fn |-> "escape_probability",
                args |-> [z |-> z, nc |-> nc, Tc |-> Tc,
                          Tc_threshold |-> DefaultTcThreshold],
                ret |-> escape_probability(z, nc, Tc, DefaultTcThreshold),
                raised |-> "none"]
    /\ prev' = call
    /\ UNCHANGED <<fabricVars, np_random, demoVars, csvVars, pairVars>>

FormulaInit == FabricIdle /\ LogIdle /\ np_random = 0 /\ DemoIdle /\ CsvIdle /\ PairIdle

FormulaNext ==
    \/ \E p \in DetuningSets : CallComputeDetuning(p)
    \/ \E p \in TrapSets : CallCouplingEfficiency(p)
    \/ \E p \in NoiseSets : CallCoherenceTime(p)
    \/ \E z \in EscapeZs, nc \in EscapeNcs, Tc \in EscapeTcs :
           CallEscapeProbability(z, nc, Tc)

SpecFormula == FormulaInit /\ [][FormulaNext]_vars

\* ------------------------------------------------- the probes, call by call

\* Shot counts passed to the probes: negative, zero and up to MaxShots.
MaxShots == 2
Shots == -1 .. MaxShots

\* (Tc, z, nc) passed to run_cirq_noise_probe: Tc zero, negative and 100 ms;
\* z small, large and negative; nc across [0, 1].
CirqArgs ==
    { <<Zero, Rat(1, 100), Rat(1, 2)>>,
      <<Rat(-1, 1), Rat(5, 1), Zero>>,
      <<Rat(100, 1), Rat(-2, 1), One>> }

\* (z, nc) passed to run_qiskit_noise_probe and simulate_hawking_pairs:
\* below and above the wall 0.014.
PairArgs ==
    { <<Rat(1, 100), Rat(1, 2)>>, <<Rat(1, 50), One>> }

\* run_cirq_noise_probe.  Nothing looks at shots before simulator.run is
\* invoked (sampled).  For shots > 0 the samples come from the process-wide
\* generator.  For shots <= 0 the simulator either raises or returns no
\* samples (lib); with no samples, shots = 0 fails in the division of line
\* 72 and a negative shots returns an empty histogram and fidelity 0.
CallRunCirqNoiseProbe(Tc, z, nc, shots, lib) ==
    /\ lib = "raises" => shots <= 0
    /\ LET args == [Tc |-> Tc, z |-> z, nc |-> nc, shots |-> shots]
           samples == Draws(np_random, shots)
       IN  call' =
             IF lib = "raises"
             THEN [fn |-> "run_cirq_noise_probe", args |-> args, sampled |-> TRUE,
                   circuit |-> cirq_circuit,
                   ret |-> NoResult, raised |-> "ValueError"]
             ELSE IF shots = 0
             THEN [fn |-> "run_cirq_noise_probe", args |-> args, sampled |-> TRUE,
                   circuit |-> cirq_circuit,
                   ret |-> NoResult, raised |-> "ZeroDivisionError"]
             ELSE [fn |-> "run_cirq_noise_probe", args |-> args, sampled |-> TRUE,
                   circuit |-> cirq_circuit,
                   ret |-> run_cirq_noise_probe(Tc, z, nc, shots, samples),
                   raised |-> "none"]
    /\ np_random' = After(np_random, shots)
    /\ prev' = call
    /\ UNCHANGED <<fabricVars, demoVars, csvVars, pairVars>>

\* run_qiskit_noise_probe.  AerSimulator is given no seed and draws a fresh
\* one for every run (seed), independent of numpy's generator; shots <= 0
\* as for the cirq probe, the backend's error being a QiskitError.
CallRunQiskitNoiseProbe(z, nc, shots, seed, lib) ==
    /\ lib = "raises" => shots <= 0
    /\ shots <= 0 => seed = 0
    /\ LET args == [z |-> z, nc |-> nc, shots |-> shots]
           samples == Draws(seed, shots)
       IN  call' =
             IF lib = "raises"
             THEN [fn |-> "run_qiskit_noise_probe", args |-> args, sampled |-> TRUE,
                   circuit |-> qiskit_circuit,
                   ret |-> NoResult, raised |-> "QiskitError"]
             ELSE IF shots = 0
             THEN [fn |-> "run_qiskit_noise_probe", args |-> args, sampled |-> TRUE,
                   circuit |-> qiskit_circuit,
                   ret |-> NoResult, raised |-> "ZeroDivisionError"]
             ELSE [fn |-> "run_qiskit_noise_probe", args |-> args, sampled |-> TRUE,
                   circuit |-> qiskit_circuit,
                   ret |-> run_qiskit_noise_probe(z, nc, shots, samples),
                   raised |-> "none"]
    /\ prev' = call
    /\ UNCHANGED <<fabricVars, np_random, demoVars, csvVars, pairVars>>

\* simulate_hawking_pairs: one draw from the process-wide generator.
CallSimulateHawkingPairs(z, nc) ==
    /\ call' = [fn |-> "simulate_hawking_pairs",
                args |-> [z |-> z, nc |-> nc, wall_z |-> DefaultWallZ],
                sampled |-> TRUE,
                ret |-> simulate_hawking_pairs(z, nc, DefaultWallZ, np_random),
                raised |-> "none"]
    /\ np_random' = Step(np_random)
    /\ prev' = call
    /\ UNCHANGED <<fabricVars, demoVars, csvVars, pairVars>>

\* The generator starts from the operating system's entropy.
ProbeInit ==
    /\ FabricIdle
    /\ LogIdle
    /\ np_random \in 0 .. RngStates - 1
    /\ DemoIdle
    /\ CsvIdle
    /\ PairIdle

ProbeNext ==
    \/ \E a \in CirqArgs, shots \in Shots, lib \in {"returns", "raises"} :
           CallRunCirqNoiseProbe(a[1], a[2], a[3], shots, lib)
    \/ \E a \in PairArgs, shots \in Shots, seed \in 0 .. RngStates - 1,
          lib \in {"returns", "raises"} :
           CallRunQiskitNoiseProbe(a[1], a[2], shots, seed, lib)
    \/ \E a \in PairArgs : CallSimulateHawkingPairs(a[1], a[2])

SpecProbe == ProbeInit /\ [][ProbeNext]_vars

\* ------------------------------------------------------------ the demo runs

\* The sweep has SweepPoints points (12 in the scripts); the single-point
\* probe takes PointShots shots (4096) and each sweep probe SweepShots (2048).
SweepPoints == 3
PointShots == 2
SweepShots == 1

\* The parameters both scripts hard-code, as far as the run uses them.
DemoParams == TRRParams(384000, 5, 1000)
DemoTrap == TrapParams(Rat(1, 100), Rat(3, 500), Rat(2, 1), Rat(1, 20))

\* coherence_time of the hard-coded noise (1e6, 2e9, 5e8 Hz on 3.84e14 Hz):
\* 1e-3 / (1 + 5.4e-6) s, taken as 1 ms.
DemoTc == One

\* min(0.9, x) and the i-th of the SweepPoints values of
\* np.linspace(0, min(0.9, z * 1.2), SweepPoints), i = 1 .. SweepPoints.
Min(a, b) == IF Lt(b, a) THEN b ELSE a
zs(z, i) == Mul(Rat(i - 1, SweepPoints - 1), Min(Rat(9, 10), Mul(z, Rat(6, 5))))

\* The dict a demo run logs: point 0 is the single-point probe, point i
\* the i-th point of the sweep.
PointData(i) == [keys |-> RunKeys, id |-> i]

\* A call of log_to_csv from demo() that returned, and one that raised.
Logged(h, data) == [h EXCEPT !.started = @ + 1, !.returned = Append(@, data)]
LogRaised(h, data) == [h EXCEPT !.started = @ + 1, !.raised = @ \cup {data.id}]

\* qp after lines 106-121 of demo_runner.py: the probe's fidelity, or None
\* if cirq is missing or the probe call raised.
current_qp_zero(cirq, ok, r) ==
    IF cirq /\ ok
    THEN run_cirq_noise_probe(DemoTc, compute_detuning(DemoParams).z,
                              coupling_efficiency(DemoTrap), PointShots,
                              Draws(r, PointShots)).fidelity_proxy
    ELSE Zero
current_qp(cirq, ok, r) ==
    IF cirq /\ ok
    THEN run_cirq_noise_probe(DemoTc, compute_detuning(DemoParams).z,
                              coupling_efficiency(DemoTrap), PointShots,
                              Draws(r, PointShots)).fidelity_proxy
    ELSE NoResult

\* demo() up to the sweep: the formulas, the single-point probe and its
\* log row.  In demo_runner.py the probe runs only if cirq was importable
\* and a failure leaves qp = None; the row is logged only if logging_utils
\* was importable and qp is not None, inside a try block that binds the
\* local name log_file (line 141) after os.makedirs and before log_to_csv.
\* In demo.py a failure of the probe or of log_to_csv leaves demo() with
\* the exception.  ok tells whether the probe call returns, log how the
\* logging block ends.
StartDemo(script, cirq, ok, logging, log) ==
    /\ pc = "idle"
    /\ script = "demo" => cirq /\ logging /\ log # "makedirs raises"
    /\ ~cirq => ok
    /\ ~(cirq /\ ok /\ logging) => log = "returns"
    /\ run' = [script |-> script, cirq |-> cirq, logging |-> logging,
               z |-> compute_detuning(DemoParams).z,
               nc |-> coupling_efficiency(DemoTrap),
               Tc |-> DemoTc]
    /\ qp' = current_qp(cirq, ok, np_random)
    /\ np_random' = IF cirq /\ ok THEN After(np_random, PointShots) ELSE np_random
    /\ IF cirq /\ ok /\ logging
       THEN /\ log_file' = IF script = "demo_runner" /\ log # "makedirs raises"
                           THEN "bound" ELSE log_file
            /\ IF log = "returns"
               THEN /\ file' = log_to_csv(file, PointData(0))
                    /\ history' = Logged(history, PointData(0))
               ELSE IF log = "log_to_csv raises"
               THEN /\ history' = LogRaised(history, PointData(0))
                    /\ UNCHANGED file
               ELSE UNCHANGED <<file, history>>
       ELSE UNCHANGED <<log_file, file, history>>
    /\ IF ~cirq
       THEN pc' = "swept" /\ UNCHANGED cause
       ELSE IF script = "demo" /\ ~ok
       THEN pc' = "aborted" /\ cause' = "probe error"
       ELSE IF script = "demo" /\ log # "returns"
       THEN pc' = "aborted" /\ cause' = "log error"
       ELSE pc' = "sweep" /\ UNCHANGED cause
    /\ UNCHANGED <<k, fps, failed, writers>>
    /\ UNCHANGED <<fabricVars, logVars, pairVars>>

\* One iteration of the sweep loop.  A probe call that returns appends its
\* fidelity; demo_runner.py then logs the point if logging_utils was
\* importable: log_to_csv(log_file, ...) inside try / except Exception:
\* pass, so that an unbound log_file (NameError) or a failing log_to_csv
\* passes silently.  A probe call that raises: demo_runner.py prints the
\* error and appends 0.0 (line 186); demo.py has no handler and the
\* exception leaves demo().  logok tells whether log_to_csv returns.
SweepPoint(ok, logok) ==
    /\ pc = "sweep"
    /\ k < SweepPoints
    /\ ~(ok /\ run.script = "demo_runner" /\ run.logging /\ log_file = "bound")
           => logok
    /\ IF ok
       THEN /\ fps' = Append(fps,
                        run_cirq_noise_probe(run.Tc, zs(run.z, k + 1), run.nc,
                                             SweepShots,
                                             Draws(np_random, SweepShots)).fidelity_proxy)
            /\ np_random' = After(np_random, SweepShots)
            /\ k' = k + 1
            /\ IF run.script = "demo_runner" /\ run.logging /\ log_file = "bound"
               THEN IF logok
                    THEN /\ file' = log_to_csv(file, PointData(k + 1))
                         /\ history' = Logged(history, PointData(k + 1))
                    ELSE /\ history' = LogRaised(history, PointData(k + 1))
                         /\ UNCHANGED file
               ELSE UNCHANGED <<file, history>>
            /\ UNCHANGED <<pc, failed, cause>>
       ELSE IF run.script = "demo_runner"
       THEN /\ fps' = Append(fps, Zero)
            /\ failed' = failed \cup {k + 1}
            /\ k' = k + 1
            /\ UNCHANGED <<pc, np_random, cause, file, history>>
       ELSE /\ failed' = failed \cup {k + 1}
            /\ pc' = "aborted"
            /\ cause' = "probe error"
            /\ UNCHANGED <<k, fps, np_random, file, history>>
    /\ UNCHANGED <<run, qp, log_file, writers>>
    /\ UNCHANGED <<fabricVars, logVars, pairVars>>

\* The loop is over: the summary is printed.
EndSweep ==
    /\ pc = "sweep"
    /\ k = SweepPoints
    /\ pc' = "swept"
    /\ UNCHANGED <<run, qp, k, fps, failed, cause, log_file, np_random>>
    /\ UNCHANGED <<fabricVars, logVars, csvVars, pairVars>>

\* demo() returns current_qp and the sweep data.
ReturnDemo ==
    /\ pc = "swept"
    /\ pc' = "done"
    /\ UNCHANGED <<run, qp, k, fps, failed, cause, log_file, np_random>>
    /\ UNCHANGED <<fabricVars, logVars, csvVars, pairVars>>

\* The log file of an earlier run may be there.
DemoInit ==
    /\ FabricIdle
    /\ LogIdle
    /\ np_random \in 0 .. RngStates - 1
    /\ DemoIdle
    /\ PairIdle
    /\ file \in {NoFile, OldFile}
    /\ writers = [w \in Writers |-> IdleWriter]
    /\ history = [NoHistory EXCEPT !.initial = file]

DemoNext ==
    \/ \E script \in {"demo_runner", "demo"}, cirq, ok, logging \in BOOLEAN,
          log \in {"returns", "makedirs raises", "log_to_csv raises"} :
           StartDemo(script, cirq, ok, logging, log)
    \/ \E ok, logok \in BOOLEAN : SweepPoint(ok, logok)
    \/ EndSweep
    \/ ReturnDemo

SpecDemo == DemoInit /\ [][DemoNext]_vars

\* ------------------------------------------------- log_to_csv, step by step

\* At most MaxCalls calls of log_to_csv are started.
MaxCalls == 3

\* Lines 7-8: the header is taken from the dict and the existence of the
\* file is looked up.  The call overlaps another one if some other writer
\* is inside log_to_csv at that moment.
CheckFile(w, keys) ==
    /\ writers[w].pc = "idle"
    /\ history.started < MaxCalls
    /\ writers' = [writers EXCEPT ![w] =
                     [pc |-> "open",
                      data |-> [keys |-> keys, id |-> history.started + 1],
                      file_exists |-> isfile(file)]]
    /\ history' = [history EXCEPT
                     !.started = @ + 1,
                     !.overlapped = @ \/ \E v \in Writers \ {w} : writers[v].pc # "idle"]
    /\ UNCHANGED file
    /\ UNCHANGED <<fabricVars, logVars, np_random, demoVars, pairVars>>

\* Line 9: open(filename, 'a') creates the file if it is missing, or raises
\* OSError and the call is over.
OpenFile(w, ok) ==
    /\ writers[w].pc = "open"
    /\ IF ok
       THEN /\ file' = open_append(file)
            /\ writers' = [writers EXCEPT ![w].pc = "write"]
            /\ UNCHANGED history
       ELSE /\ writers' = [writers EXCEPT ![w] = IdleWriter]
            /\ history' = [history EXCEPT !.raised = @ \cup {writers[w].data.id}]
            /\ UNCHANGED file
    /\ UNCHANGED <<fabricVars, logVars, np_random, demoVars, pairVars>>

\* Lines 10-13: the header, if the file was missing at line 8, and the row.
WriteRows(w) ==
    /\ writers[w].pc = "write"
    /\ writers' = [writers EXCEPT ![w] =
                     [pc |-> "close",
                      data |-> writers[w].data,
                      buffer |-> DictWriter(writers[w].file_exists, writers[w].data)]]
    /\ UNCHANGED <<file, history>>
    /\ UNCHANGED <<fabricVars, logVars, np_random, demoVars, pairVars>>

\* The end of the with block.
CloseFile(w) ==
    /\ writers[w].pc = "close"
    /\ file' = close(file, writers[w].buffer)
    /\ writers' = [writers EXCEPT ![w] = IdleWriter]
    /\ history' = [history EXCEPT !.returned = Append(@, writers[w].data)]
    /\ UNCHANGED <<fabricVars, logVars, np_random, demoVars, pairVars>>

LogInit ==
    /\ FabricIdle
    /\ LogIdle
    /\ np_random = 0
    /\ DemoIdle
    /\ PairIdle
    /\ file \in {NoFile, EmptyFile, OldFile}
    /\ writers = [w \in Writers |-> IdleWriter]
    /\ history = [NoHistory EXCEPT !.initial = file]

LogNext ==
    \/ \E w \in Writers, keys \in {RunKeys, OtherKeys} : CheckFile(w, keys)
    \/ \E w \in Writers, ok \in BOOLEAN : OpenFile(w, ok)
    \/ \E w \in Writers : WriteRows(w)
    \/ \E w \in Writers : CloseFile(w)

SpecLog == LogInit /\ [][LogNext]_vars

\* ------------------------------------------ sweeps of simulate_hawking_pairs

\* The z values of a sweep: those of test_hawking_pairs_increase_with_z,
\* the equal steps from 0.005 to 0.020 across the wall, and the two ends
\* and the middle of main()'s range.
TestZs == <<Rat(1, 200), Rat(1, 100), Rat(7, 500)>>
ScenarioZs == <<Rat(1, 200), Rat(1, 100), Rat(3, 200), Rat(1, 50)>>
RangeZs == <<Zero, Rat(1, 100), Rat(1, 50)>>
SweepNcs == {Zero, Rat(1, 2), One}

\* One iteration of the loop: simulate_hawking_pairs(z, nc) at the next z,
\* its pair_prob appended to probs.
HawkingPoint ==
    /\ sweep # NoSweep
    /\ Len(probs) < Len(sweep.z_values)
    /\ LET z == sweep.z_values[Len(probs) + 1]
           ret == simulate_hawking_pairs(z, sweep.nc, DefaultWallZ, np_random)
       IN  /\ call' = [fn |-> "simulate_hawking_pairs",
                       args |-> [z |-> z, nc |-> sweep.nc, wall_z |-> DefaultWallZ],
                       sampled |-> TRUE,
                       ret |-> ret,
                       raised |-> "none"]
           /\ probs' = Append(probs, ret.pair_prob)
    /\ np_random' = Step(np_random)
    /\ prev' = call
    /\ UNCHANGED sweep
    /\ UNCHANGED <<fabricVars, demoVars, csvVars>>

PairInit ==
    /\ FabricIdle
    /\ LogIdle
    /\ np_random \in 0 .. RngStates - 1
    /\ DemoIdle
    /\ CsvIdle
    /\ \E zl \in {TestZs, ScenarioZs, RangeZs}, nc \in SweepNcs :
           sweep = [test |-> "sweep", z_values |-> zl, nc |-> nc]
    /\ probs = <<>>

PairNext == HawkingPoint

SpecPairs == PairInit /\ [][PairNext]_vars

\* ---------------------------------------------- the methods, call by call

\* Arguments of the fabric methods: z below zero, small, on the default
\* threshold and above it; the lengths given, or left out from the right.
FabricZs == {Rat(-2, 1), Rat(1, 100), Rat(1, 78), Rat(1, 20)}
FabricLengths ==
    { <<Omitted, Omitted>>, <<Given(Rat(800, 1)), Omitted>>,
      <<Given(Rat(800, 1)), Given(Rat(600, 1))>>,
      <<Given(Rat(790, 1)), Given(Rat(790, 1))>> }
Thresholds == {Omitted, Given(Rat(2, 1))}

\* Parameter sets handed to the methods: the demo's and a degenerate one.
EngineTrapSets == {DemoTrap, TrapParams(Zero, Rat(3, 500), Rat(2, 1), Rat(1, 20))}
EngineNoiseSets ==
    { NoiseParams(Rat(384000, 1), Rat(3, 1), Rat(4, 1), Zero, One),
      NoiseParams(Zero, Zero, Zero, Zero, One) }
EngineEscapes ==
    { <<Rat(1, 100), Rat(1, 2), One>>, <<Rat(1, 5), Zero, Rat(1, 2000)>>,
      <<Rat(-2, 1), One, One>> }

\* A call of a method: the function's call is logged with what it
\* received, then the method's with what it was given and what it returns.
Forwarded(method, fn, given, received, ret, raised) ==
    /\ prev' = [fn |-> fn, args |-> received, ret |-> ret, raised |-> raised]
    /\ call' = [fn |-> method, args |-> given, ret |-> ret, raised |-> raised]

EngineComputeDetuning(p) ==
    /\ LET a == PhysicsEngine_compute_detuning(p)
       IN  Forwarded("PhysicsEngine.compute_detuning", "compute_detuning",
                     p, a, compute_detuning(a), "none")
    /\ UNCHANGED <<fabricVars, np_random, demoVars, csvVars, pairVars>>

EngineCouplingEfficiency(p) ==
    /\ LET a == PhysicsEngine_coupling_efficiency(p)
       IN  Forwarded("PhysicsEngine.coupling_efficiency", "coupling_efficiency",
                     p, a, coupling_efficiency(a), "none")
    /\ UNCHANGED <<fabricVars, np_random, demoVars, csvVars, pairVars>>

EngineCoherenceTime(p) ==
    /\ LET a == PhysicsEngine_coherence_time(p)
       IN  Forwarded("PhysicsEngine.coherence_time", "coherence_time",
                     p, a, coherence_time(a), "none")
    /\ UNCHANGED <<fabricVars, np_random, demoVars, csvVars, pairVars>>

EngineEscapeProbability(z, nc, Tc, Tc_threshold) ==
    /\ LET a == PhysicsEngine_escape_probability(z, nc, Tc, Tc_threshold)
       IN  Forwarded("PhysicsEngine.escape_probability", "escape_probability",
                     [z |-> z, nc |-> nc, Tc |-> Tc, Tc_threshold |-> Tc_threshold],
                     a, escape_probability(a.z, a.nc, a.Tc, a.Tc_threshold), "none")
    /\ UNCHANGED <<fabricVars, np_random, demoVars, csvVars, pairVars>>

EngineFabricLockActive(z, le, ts) ==
    /\ LET a == PhysicsEngine_fabric_lock_active(z, le, ts)
       IN  Forwarded("PhysicsEngine.fabric_lock_active", "fabric_lock_active",
                     [z |-> z, lambda_emit |-> le, trap_size |-> ts],
                     a, fabric_lock_active(a.z, a.lambda_emit, a.trap_size), "none")
    /\ UNCHANGED <<fabricVars, np_random, demoVars, csvVars, pairVars>>

EngineComputeLambdaFabric(z, le, ts) ==
    /\ LET a == PhysicsEngine_compute_lambda_fabric(z, le, ts)
       IN  Forwarded("PhysicsEngine.compute_lambda_fabric", "compute_lambda_fabric",
                     [z |-> z, lambda_emit |-> le, trap_size |-> ts],
                     a, compute_lambda_fabric(a.z, a.lambda_emit, a.trap_size), "none")
    /\ UNCHANGED <<fabricVars, np_random, demoVars, csvVars, pairVars>>

EngineIdentityPersistence(z, le, ts) ==
    /\ LET a == PhysicsEngine_identity_persistence(z, le, ts)
       IN  Forwarded("PhysicsEngine.identity_persistence", "identity_persistence",
                     [z |-> z, lambda_emit |-> le, trap_size |-> ts],
                     a, identity_persistence(a.z, a.lambda_emit, a.trap_size), "none")
    /\ UNCHANGED <<fabricVars, np_random, demoVars, csvVars, pairVars>>

\* The probe draws its samples from numpy's generator, once.
ProbeRunCirqNoiseProbe(Tc, z, nc, shots, lib) ==
    /\ LET a == QuantumNoiseProbe_run_cirq_noise_probe(Tc, z, nc, shots)
           given == [Tc |-> Tc, z |-> z, nc |-> nc, shots |-> shots]
       IN  /\ lib = "raises" => a.shots <= 0
           /\ IF lib = "raises"
              THEN Forwarded("QuantumNoiseProbe.run_cirq_noise_probe",
                             "run_cirq_noise_probe", given, a, NoResult, "ValueError")
              ELSE IF a.shots = 0
              THEN Forwarded("QuantumNoiseProbe.run_cirq_noise_probe",
                             "run_cirq_noise_probe", given, a, NoResult,
                             "ZeroDivisionError")
              ELSE Forwarded("QuantumNoiseProbe.run_cirq_noise_probe",
                             "run_cirq_noise_probe", given, a,
                             run_cirq_noise_probe(a.Tc, a.z, a.nc, a.shots,
                                                  Draws(np_random, a.shots)),
                             "none")
           /\ np_random' = After(np_random, a.shots)
    /\ UNCHANGED <<fabricVars, demoVars, csvVars, pairVars>>

EngineInit ==
    /\ FabricIdle
    /\ LogIdle
    /\ np_random \in 0 .. RngStates - 1
    /\ DemoIdle
    /\ CsvIdle
    /\ PairIdle

EngineNext ==
    \/ \E p \in DetuningSets : EngineComputeDetuning(p)
    \/ \E p \in EngineTrapSets : EngineCouplingEfficiency(p)
    \/ \E p \in EngineNoiseSets : EngineCoherenceTime(p)
    \/ \E a \in EngineEscapes, th \in Thresholds :
           EngineEscapeProbability(a[1], a[2], a[3], th)
    \/ \E z \in FabricZs, g \in FabricLengths : EngineFabricLockActive(z, g[1], g[2])
    \/ \E z \in FabricZs, g \in FabricLengths : EngineComputeLambdaFabric(z, g[1], g[2])
    \/ \E z \in FabricZs, g \in FabricLengths : EngineIdentityPersistence(z, g[1], g[2])
    \/ \E a \in CirqArgs, shots \in {Given(n) : n \in Shots} \cup {Omitted},
          lib \in {"returns", "raises"} :
           ProbeRunCirqNoiseProbe(a[1], a[2], a[3], shots, lib)

SpecEngine == EngineInit /\ [][EngineNext]_vars

\* ------------------------------------------------------ claims: vocabulary

Did(f) == f \in called

DefaultGeometry ==
    /\ lambda_emit = Rat(DefaultLambdaEmit, 1)
    /\ trap_size = Rat(DefaultTrapSize, 1)

\* lambda_emit * (1 + z), the redshifted wavelength at redshift z.
RedshiftedAt(z) == Rat(lambda_emit.n * (z.d + z.n), lambda_emit.d * z.d)

\* z against the lock threshold trap_size / lambda_emit - 1.
AboveThreshold(z) == Gt(RedshiftedAt(z), trap_size)
AtThreshold(z) == RedshiftedAt(z) = trap_size
BelowThreshold(z) == Lt(RedshiftedAt(z), trap_size)

\* The threshold the tests and the demo name, z = 0.014.
NamedThreshold == Rat(14, 1000)

\* ------------------------------------------------------------------ claims

\* C1: fabric_lock_active(z, lambda_emit, trap_size) is true iff
\* compute_lambda_fabric(z, lambda_emit, trap_size) > 1.0 strictly; at a
\* ratio of exactly 1.0 the lock is inactive.
C1_LockIffLambdaAboveOne ==
    (Did("lock") /\ Did("lambda")) =>
        /\ locked <=> Gt(Lambda, One)
        /\ Lambda = One => ~locked

\* C1 witness: both functions were called at a ratio of exactly 1.0 and the
\* lock is inactive.
C1_Witness ==
    /\ Did("lock") /\ Did("lambda")
    /\ Lambda = One
    /\ ~locked

C3_IdentityInUnitInterval ==
    Did("identity") => (Ge(I_MI, Zero) /\ Le(I_MI, One))

\* C4: for every z compute_detuning can produce, compute_lambda_fabric
\* returns a strictly positive value.
C4_LambdaFabricPositive ==
    Did("lambda") => Gt(Lambda, Zero)

\* C5: with the default wavelength and trap size, fabric_lock_active(z) is
\* false for every z < 0.014.
C5_InactiveBelowNamedThreshold ==
    (DefaultGeometry /\ Did("lock") /\ Lt(det.z, NamedThreshold)) => ~locked

\* C6: with the default wavelength and trap size, fabric_lock_active(z) is
\* true for every z >= 0.014 and identity_persistence(z) is 0.95 there; a
\* lock at z implies a lock at every larger z; no negative z activates it.
C6_LockedFromNamedThreshold ==
    DefaultGeometry =>
        /\ Did("lock") =>
            /\ Ge(det.z, NamedThreshold) => locked
            /\ Lt(det.z, Zero) => ~locked
            /\ (row.valid /\ row.locked /\ Ge(det.z, row.z)) => locked
            /\ (row.valid /\ locked /\ Ge(row.z, det.z)) => row.locked
        /\ (Did("identity") /\ Ge(det.z, NamedThreshold)) => I_MI = Rat(95, 100)

\* C6 witness: a locked row at z >= 0.014 is followed by a larger z that is
\* locked too, with identity persistence 0.95.
C6_Witness ==
    /\ DefaultGeometry
    /\ row.valid /\ row.locked /\ Ge(row.z, NamedThreshold)
    /\ Did("lock") /\ Did("identity")
    /\ Gt(det.z, row.z)
    /\ locked
    /\ I_MI = Rat(95, 100)

\* C7: whenever the fabric lock is inactive, identity_persistence returns a
\* value strictly less than 0.95.
C7_UnlockedBelowConstant ==
    (Did("lock") /\ Did("identity") /\ ~locked) => Lt(I_MI, Rat(95, 100))

\* C8: identity_persistence is monotonically non-increasing in z over all z
\* strictly below the lock threshold, for a fixed wavelength and trap size.
C8_NonIncreasingBelowThreshold ==
    (row.valid /\ Did("identity")
        /\ BelowThreshold(row.z) /\ BelowThreshold(det.z)) =>
        /\ Le(row.z, det.z) => Ge(row.I_MI, I_MI)
        /\ Le(det.z, row.z) => Ge(I_MI, row.I_MI)

\* C8 witness: two successive calls below the threshold, the second at a
\* larger z and with a strictly smaller result.
C8_Witness ==
    /\ row.valid /\ Did("identity")
    /\ BelowThreshold(row.z) /\ BelowThreshold(det.z)
    /\ Lt(row.z, det.z)
    /\ Lt(I_MI, row.I_MI)

C11_CouplingClipped ==
    call.fn = "coupling_efficiency" =>
        LET a == call.args
            raw == Mul(Div(a.P_trap, a.P_in), Exp(Neg(Mul(a.alpha_loss, a.L_eff))))
        IN  /\ call.raised = "none"
            /\ Ge(call.ret, Zero) /\ Le(call.ret, One)
            /\ Le(a.P_in, Zero) => call.ret = Zero
            /\ Gt(a.P_in, Zero) =>
                /\ Lt(raw, Zero) => call.ret = Zero
                /\ Gt(raw, One) => call.ret = One
                /\ (Ge(raw, Zero) /\ Le(raw, One)) => call.ret = raw
            /\ a = TrapParams(Rat(1, 100), Rat(3, 500), Rat(2, 1), Rat(1, 20)) =>
                (Ge(call.ret, Rat(5429, 10000)) /\ Lt(call.ret, Rat(5430, 10000)))

\* C11 witness: a call with positive input power and a trap power above it,
\* so that the raw ratio exceeds 1 and the result is clipped to 1.
C11_Witness ==
    /\ call.fn = "coupling_efficiency"
    /\ Gt(call.args.P_in, Zero)
    /\ Gt(call.args.P_trap, call.args.P_in)
    /\ call.ret = One

\* C12: compute_detuning returns delta_nu = n_cycles * fm, nu_obs = nu_emit
\* - delta_nu and z = delta_nu / nu_emit; for the default parameters
\* (3.84e14 Hz, 5e9 Hz, 1000 cycles) z is positive and 0.013021 to six
\* decimals.
C12_DetuningFormula ==
    Did("detuning") =>
        /\ det.delta_nu = Rat(params.n_cycles * params.fm, 1)
        /\ det.nu_obs = Rat(params.nu_emit - params.n_cycles * params.fm, 1)
        /\ det.z = Rat(params.n_cycles * params.fm, params.nu_emit)
        /\ det.z = Div(det.delta_nu, Rat(params.nu_emit, 1))
        /\ params = TRRParams(384000, 5, 1000) =>
            /\ Gt(det.z, Zero)
            /\ Ge(det.z, Rat(130205, 10000000))
            /\ Lt(det.z, Rat(130215, 10000000))

\* C12 witness: the detuning of the default parameters has been computed.
C12_Witness ==
    /\ Did("detuning")
    /\ params = TRRParams(384000, 5, 1000)
    /\ det.delta_nu = Rat(5000, 1)
    /\ det.nu_obs = Rat(379000, 1)
    /\ det.z = Rat(5, 384)

\* C13: with nc, Tc and the threshold held fixed, escape_probability does
\* not decrease when z increases: of two calls that differ only in z, the
\* one with the larger z returns at least as much.
C13_EscapeMonotoneInZ ==
    ( /\ prev.fn = "escape_probability"
      /\ call.fn = "escape_probability"
      /\ prev.args.nc = call.args.nc
      /\ prev.args.Tc = call.args.Tc
      /\ prev.args.Tc_threshold = call.args.Tc_threshold
      /\ Le(prev.args.z, call.args.z) )
    => Le(prev.ret, call.ret)

\* C13 witness: two successive calls with the same nc and Tc, the second
\* with a larger z and a strictly larger escape probability.
C13_Witness ==
    /\ prev.fn = "escape_probability"
    /\ call.fn = "escape_probability"
    /\ prev.args.nc = call.args.nc
    /\ prev.args.Tc = call.args.Tc
    /\ Lt(prev.args.z, call.args.z)
    /\ Lt(prev.ret, call.ret)

\* C14: coherence_time never returns a negative value; it is
\* baseline / (1 + sigma_total / max(nu_emit, 1.0)) with sigma_total the
\* root-sum-square of the three noise magnitudes, raised to 0 if negative.
C14_CoherenceFloored ==
    call.fn = "coherence_time" =>
        LET a == call.args
            sigma_total == Sqrt(Add(Add(Mul(a.sigma_laser, a.sigma_laser),
                                        Mul(a.sigma_mod, a.sigma_mod)),
                                    Mul(a.sigma_trap, a.sigma_trap)))
            norm == IF Ge(a.nu_emit, One) THEN a.nu_emit ELSE One
            Tc == Div(a.coherence_baseline, Add(One, Div(sigma_total, norm)))
        IN  /\ call.raised = "none"
            /\ Ge(call.ret, Zero)
            /\ Ge(Tc, Zero) => call.ret = Tc
            /\ Lt(Tc, Zero) => call.ret = Zero

\* C14 witness: a call with a negative baseline, whose quotient is negative
\* and is returned as 0.
C14_Witness ==
    /\ call.fn = "coherence_time"
    /\ Lt(call.args.coherence_baseline, Zero)
    /\ Gt(call.args.sigma_laser, Zero)
    /\ call.ret = Zero

\* C17: a parameter set with a negative cycle count or a negative noise
\* magnitude is rejected with an error by the first formula call
\* (compute_detuning, coherence_time); no result is computed from it.
C17_InvalidParamsRejected ==
    /\ (call.fn = "compute_detuning" /\ call.args.n_cycles < 0)
           => call.raised # "none"
    /\ ( /\ call.fn = "coherence_time"
         /\ \/ Lt(call.args.sigma_laser, Zero)
            \/ Lt(call.args.sigma_mod, Zero)
            \/ Lt(call.args.sigma_trap, Zero) )
           => call.raised # "none"

\* The bit strings of two-qubit outcomes.
TwoBitKeys == {"00", "01", "10", "11"}

\* C15: for every positive shot count the histogram returned by
\* run_cirq_noise_probe has only 2-bit keys, counts that are non-negative
\* and sum to shots, and fidelity_proxy = (count("00") + count("11")) / shots
\* in [0, 1], an outcome that never occurred counting as 0.
C15_HistogramSumsToShots ==
    (call.fn = "run_cirq_noise_probe" /\ call.args.shots > 0) =>
        LET counts == call.ret.counts
            shots == call.args.shots
        IN  /\ call.raised = "none"
            /\ DOMAIN counts \subseteq TwoBitKeys
            /\ \A b \in DOMAIN counts : counts[b] >= 0
            /\ Get(counts, "00") + Get(counts, "01") + Get(counts, "10")
                   + Get(counts, "11") = shots
            /\ call.ret.fidelity_proxy
                   = Rat(Get(counts, "00") + Get(counts, "11"), shots)
            /\ Ge(call.ret.fidelity_proxy, Zero)
            /\ Le(call.ret.fidelity_proxy, One)

\* C15 witness: two shots that gave the same outcome 11, so that the
\* histogram has the single key "11" with count 2, "00" is missing, and the
\* fidelity is 1.
C15_Witness ==
    /\ call.fn = "run_cirq_noise_probe"
    /\ call.args.shots = 2
    /\ call.raised = "none"
    /\ DOMAIN call.ret.counts = {"11"}
    /\ call.ret.counts["11"] = 2
    /\ call.ret.fidelity_proxy = One

\* C16: a shot count of 0 or below passed to run_cirq_noise_probe or
\* run_qiskit_noise_probe raises InvalidInput before any sampling.
C16_NonPositiveShotsRejected ==
    ( /\ call.fn \in {"run_cirq_noise_probe", "run_qiskit_noise_probe"}
      /\ call.args.shots <= 0 )
    => (call.raised = "InvalidInput" /\ ~call.sampled)

\* C18: for every Tc (0 and negative included), z and nc the noise
\* magnitudes returned by run_cirq_noise_probe lie in [0, 0.9]:
\* dep_err = clip(0.02 + 0.30 z + 0.20 (1 - nc), 0, 0.9) and
\* phase_err = clip(0.02 + 0.50 * 1e-3 / max(Tc, 1e-12) + 0.10 (1 - nc), 0, 0.9);
\* with Tc <= 0 the floor makes the ratio 1e9 and phase_err is 0.9.
C18_NoiseMagnitudesClipped ==
    (call.fn = "run_cirq_noise_probe" /\ call.raised = "none") =>
        LET a == call.args
            dep == Add(Add(Rat(1, 50), Mul(Rat(3, 10), a.z)),
                       Mul(Rat(1, 5), Sub(One, a.nc)))
            den == IF Gt(a.Tc, TcFloor) THEN a.Tc ELSE TcFloor
            phase == Add(Add(Rat(1, 50), Mul(Rat(1, 2), Div(One, den))),
                         Mul(Rat(1, 10), Sub(One, a.nc)))
        IN  /\ Ge(call.ret.dep_err, Zero) /\ Le(call.ret.dep_err, Rat(9, 10))
            /\ Ge(call.ret.phase_err, Zero) /\ Le(call.ret.phase_err, Rat(9, 10))
            /\ call.ret.dep_err = Clip(dep, Zero, Rat(9, 10))
            /\ call.ret.phase_err = Clip(phase, Zero, Rat(9, 10))
            /\ Le(a.Tc, Zero) => call.ret.phase_err = Rat(9, 10)

\* C18 witness: a probe with Tc exactly 0 that returned, its phase error
\* at the upper bound and its depolarizing error strictly inside the range.
C18_Witness ==
    /\ call.fn = "run_cirq_noise_probe"
    /\ call.raised = "none"
    /\ call.args.Tc = Zero
    /\ call.ret.phase_err = Rat(9, 10)
    /\ Gt(call.ret.dep_err, Zero)
    /\ Lt(call.ret.dep_err, Rat(9, 10))

\* C19: two invocations of a probe, or of simulate_hawking_pairs, with the
\* same arguments return the same histogram, fidelity or count: whatever
\* fixes the random source is among the arguments of the call.
C19_SameArgumentsSameSamples ==
    ( /\ call.fn \in {"run_cirq_noise_probe", "run_qiskit_noise_probe",
                      "simulate_hawking_pairs"}
      /\ prev.fn = call.fn
      /\ prev.args = call.args
      /\ prev.raised = "none"
      /\ call.raised = "none" )
    => prev.ret = call.ret

\* C20: every fidelity in the sweep data comes from a probe call that
\* returned: a sweep point whose probe call raised contributes no entry (and
\* so no substituted 0) to fps.
C20_NoSubstitutedFidelity ==
    \A i \in failed : i > Len(fps)

\* C27: sequential calls of log_to_csv on a file that did not exist leave
\* one header row, the first line, followed by one data row per call, in
\* call order; on a file that existed, the lines it had followed by one
\* data row per call and no header.
Quiescent == \A w \in Writers : writers[w].pc = "idle"
Rows(calls) == [i \in 1 .. Len(calls) |-> Row(calls[i])]
HeaderRows(f) == {i \in 1 .. Len(f.rows) : f.rows[i].kind = "header"}
C27_OneHeaderThenRows ==
    (Quiescent /\ ~history.overlapped) =>
        /\ \A i, j \in 1 .. Len(history.returned) :
               i < j => history.returned[i].id < history.returned[j].id
        /\ (history.initial = NoFile /\ history.returned # <<>>) =>
               /\ file.rows = <<Header(history.returned[1])>> \o Rows(history.returned)
               /\ HeaderRows(file) = {1}
        /\ history.initial # NoFile =>
               /\ file.rows = history.initial.rows \o Rows(history.returned)
               /\ HeaderRows(file) = HeaderRows(history.initial)
C27_Witness ==
    /\ Quiescent
    /\ ~history.overlapped
    /\ history.initial = NoFile
    /\ Len(history.returned) >= 2
    /\ Len(file.rows) = Len(history.returned) + 1

\* C28: a file with two header rows is written only by calls of log_to_csv
\* that overlap, each having looked the file up before the other opened it;
\* calls made one after the other never write it.
C28_TwoHeadersOnlyWhenInterleaved ==
    Cardinality(HeaderRows(file)) >= 2 => history.overlapped
C28_Witness ==
    /\ history.initial = NoFile
    /\ Quiescent
    /\ Cardinality(HeaderRows(file)) = 2
    /\ history.overlapped

\* C21: a demo_runner run without the backend still produces the formula
\* results and reports no fidelity at all, neither a single-point one nor a
\* sweep value nor a log row, while a run with the backend always returns
\* one sweep value per point: the two outcomes cannot be taken for each
\* other, and no unavailable run shows a fidelity of 0.
DataRows(f, i) == {j \in 1 .. Len(f.rows) : f.rows[j].kind = "row" /\ f.rows[j].id = i}
C21_UnavailableIsNotZero ==
    (run.script = "demo_runner" /\ pc \in {"swept", "done"}) =>
        /\ run.z = Rat(5, 384)
        /\ run.nc = Rat(3600, 6631)
        /\ run.Tc = One
        /\ ~run.cirq => (qp = NoResult /\ fps = <<>> /\ failed = {}
                         /\ file = history.initial /\ cause = "none")
        /\ run.cirq => Len(fps) = SweepPoints
C21_Witness ==
    /\ run.script = "demo_runner"
    /\ pc = "done"
    /\ ~run.cirq
    /\ qp = NoResult
    /\ fps = <<>>

\* C29: in a demo_runner run with the backend and the logger, every sweep
\* point whose probe call returned, and whose log_to_csv call did not
\* raise, has exactly one row in the log, and the run returns one fidelity
\* per sweep point; without the backend it returns none.
C29_EverySuccessfulPointLogged ==
    (run.script = "demo_runner" /\ pc \in {"sweep", "swept", "done"}) =>
        /\ (run.cirq /\ run.logging) =>
               \A i \in 1 .. k :
                   (i \notin failed /\ i \notin history.raised) =>
                       Cardinality(DataRows(file, i)) = 1
        /\ pc = "done" => Len(fps) = IF run.cirq THEN SweepPoints ELSE 0

\* C22: simulate_hawking_pairs returns pair_prob = 0.01 + exp(15 (z -
\* wall_z)) (1 - nc) brought into [0, 1], and a natural number that one
\* step of the generator drew with mean pair_prob * 100; along a sweep
\* with nc fixed, pair_prob never decreases as z grows.
C22_PairProbClippedAndMonotone ==
    call.fn = "simulate_hawking_pairs" =>
        LET raw == Add(Rat(1, 100),
                       Mul(Exp(Mul(Rat(15, 1), Sub(call.args.z, call.args.wall_z))),
                           Sub(One, call.args.nc)))
            p == call.ret.pair_prob
        IN  /\ p = IF Lt(raw, Zero) THEN Zero ELSE IF Gt(raw, One) THEN One ELSE raw
            /\ Ge(p, Zero) /\ Le(p, One)
            /\ call.ret.simulated_coincidences \in Nat
            /\ \E r \in 0 .. RngStates - 1 :
                   /\ Step(r) = np_random
                   /\ call.ret.simulated_coincidences
                          = Poisson(Mul(p, Rat(100, 1)), r)
            /\ \A i, j \in 1 .. Len(probs) :
                   Le(sweep.z_values[i], sweep.z_values[j]) => Le(probs[i], probs[j])
C22_Witness ==
    /\ call.fn = "simulate_hawking_pairs"
    /\ sweep.nc = Zero
    /\ Len(probs) = Len(sweep.z_values)
    /\ probs[Len(probs)] = One
    /\ Lt(probs[1], One)
    /\ call.ret.simulated_coincidences > 0

\* C23 as stated: along a sweep in equal z steps with nc fixed, each
\* increment of pair_prob exceeds the one before.
EqualSteps(i) ==
    Sub(sweep.z_values[i + 1], sweep.z_values[i])
        = Sub(sweep.z_values[i + 2], sweep.z_values[i + 1])
\* A probability as a binary fraction of 24 bits, digit by digit (no
\* product is formed): floor(p * 2^24).
RECURSIVE BinFrac(_, _, _)
BinFrac(r, d, bits) ==
    IF bits = 0 THEN 0
    ELSE IF r >= d - r
         THEN 2 ^ (bits - 1) + BinFrac(r - (d - r), d, bits - 1)
         ELSE BinFrac(r + r, d, bits - 1)
Fixed(p) == (p.n \div p.d) * 2 ^ 24 + BinFrac(p.n % p.d, p.d, 24)
IncrementsGrow(i) ==
    Fixed(probs[i + 2]) - Fixed(probs[i + 1]) > Fixed(probs[i + 1]) - Fixed(probs[i]) + 2
C23_IncrementsGrow ==
    \A i \in 1 .. Len(probs) - 2 : EqualSteps(i) => IncrementsGrow(i)

\* C23, amended: the increments grow for nc < 1 as long as pair_prob stays
\* below the clip at 1.
C23_IncrementsGrowBelowClip ==
    \A i \in 1 .. Len(probs) - 2 :
        (EqualSteps(i) /\ Lt(sweep.nc, One) /\ Lt(probs[i + 2], One))
            => IncrementsGrow(i)
C23_Witness ==
    /\ sweep # NoSweep
    /\ sweep.z_values = ScenarioZs
    /\ sweep.nc = Rat(1, 2)
    /\ Len(probs) = Len(ScenarioZs)
    /\ Lt(probs[Len(probs)], One)
    /\ IncrementsGrow(1) /\ IncrementsGrow(2)

\* C24: a method of PhysicsEngine or QuantumNoiseProbe hands the function
\* of the same name exactly the arguments it was given, an argument left
\* out replaced by the function's own default, and returns what the
\* function returns or raises what it raises.
FunctionOf(method) ==
    CASE method = "PhysicsEngine.compute_detuning" -> "compute_detuning"
      [] method = "PhysicsEngine.coupling_efficiency" -> "coupling_efficiency"
      [] method = "PhysicsEngine.coherence_time" -> "coherence_time"
      [] method = "PhysicsEngine.escape_probability" -> "escape_probability"
      [] method = "PhysicsEngine.fabric_lock_active" -> "fabric_lock_active"
      [] method = "PhysicsEngine.compute_lambda_fabric" -> "compute_lambda_fabric"
      [] method = "PhysicsEngine.identity_persistence" -> "identity_persistence"
      [] method = "QuantumNoiseProbe.run_cirq_noise_probe" -> "run_cirq_noise_probe"
      [] OTHER -> "none"
FunctionDefaults(fn, a) ==
    CASE fn = "escape_probability" ->
             [a EXCEPT !.Tc_threshold = Default(@, Rat(1, 1000))]
      [] fn \in {"fabric_lock_active", "compute_lambda_fabric", "identity_persistence"} ->
             [a EXCEPT !.lambda_emit = Default(@, Rat(780, 1)),
                       !.trap_size = Default(@, Rat(790, 1))]
      [] fn = "run_cirq_noise_probe" -> [a EXCEPT !.shots = Default(@, DefaultShots)]
      [] OTHER -> a
C24_MethodsForward ==
    FunctionOf(call.fn) # "none" =>
        /\ prev.fn = FunctionOf(call.fn)
        /\ prev.args = FunctionDefaults(prev.fn, call.args)
        /\ call.ret = prev.ret
        /\ call.raised = prev.raised
        /\ prev.fn = "fabric_lock_active" =>
               prev.ret = Gt(Div(Mul(prev.args.lambda_emit, Add(One, prev.args.z)),
                                 prev.args.trap_size), One)
C24_Witness ==
    /\ call.fn = "PhysicsEngine.fabric_lock_active"
    /\ call.args.lambda_emit = Given(Rat(800, 1))
    /\ call.args.trap_size = Omitted
    /\ prev.args.trap_size = Rat(790, 1)
    /\ call.ret = TRUE

\* C25: a call of a formula function changes neither the parameter set
\* nor the lengths it was given, and its result is determined by its own
\* arguments alone, whatever was computed before: the lock of a z below the
\* threshold is off even right after a row that was locked.
Calls(fn) == fn \in called' /\ fn \notin called
IsGate(o) == o.op \in {"H", "CNOT", "measure"}
IsChannel(o) == o.op \in {"phase_damp", "depolarize"}
C26_EachChannelOnce ==
    call.fn \in {"run_cirq_noise_probe", "run_qiskit_noise_probe"} =>
        LET c == call.circuit
        IN  /\ SelectSeq(c, IsGate)
                 = <<Op("H", <<0>>), Op("CNOT", <<0, 1>>), Op("measure", <<0, 1>>)>>
            /\ c[1].op = "H" /\ c[Len(c)].op = "measure"
            /\ \A i, j \in 1 .. Len(c) :
                   (IsChannel(c[i]) /\ c[i].op = c[j].op) => i = j

====
